---- MODULE Spec2Model ----
(***************************************************************************)
(* A model of garch (src/src/main.rs).                                     *)
(*                                                                         *)
(*   Spec       the interactive blame viewer run_interactive_viewer with   *)
(*              its line-range filter and cross-version line tracker;      *)
(*   ProbeSpec  find_closest_line_in_filtered called on its own;           *)
(*   LibSpec    the parsers (parse_commit_line, the blame parser,          *)
(*              parse_diff_output) and the four git queries, each called   *)
(*              on its own;                                                *)
(*   CmdSpec    the process from main on: the two subcommand handlers,     *)
(*              get_file_versions with its git queries free to fail, and   *)
(*              the viewer it hands the versions to.                       *)
(*                                                                         *)
(* Indices (scroll_offset, current_version, positions in a row list) are   *)
(* 0-based as in the source; TLA+ sequences are 1-based, so row i of a     *)
(* list s is s[i + 1].  An Option<usize> is a sequence of length at most   *)
(* one: <<>> is None and <<n>> is Some(n).  A string is the sequence of    *)
(* its characters.                                                         *)
(***************************************************************************)
EXTENDS Integers, Sequences, FiniteSets, TLC

\* ------------------------------------------------------------------ bounds

\* Largest line number a modelled file version holds.
MaxLine == 3
\* Longest version sequence handed to the viewer.
MaxVersions == 2
\* Longest row list / largest line number the tracker is probed with.
MaxProbeRows == 3
MaxProbeLine == 4

\* Longest line of history output tried on the commit-line parser.
MaxCommitLineLen == 6
\* Longest blame output, in lines, tried on the blame parser in every
\* arrangement of the vocabulary.
MaxBlameTextLines == 4
\* Longest diff, in lines, tried on the diff extractor in every arrangement
\* of the vocabulary.
MaxDiffTextLines == 4
\* Most commits the file history of a run holds.
MaxCommits == 3

\* ------------------------------------------------- machine integers (usize)

\* usize::MAX.  The source's usize is 64 bits wide; TLC's integers are 32
\* bits wide, so the model keeps a usize of 24 bits: every length, offset and
\* terminal size of the model is far below it, and a wrapped subtraction
\* still lands far above all of them.
UsizeMax == 16777215

UsizeModulus == UsizeMax + 1

Min(a, b) == IF a < b THEN a ELSE b

Max(a, b) == IF a > b THEN a ELSE b

\* usize::saturating_sub
saturating_sub(a, b) == IF a > b THEN a - b ELSE 0

\* a - b and a + b on usize in a build without overflow checks
wrapping_sub(a, b) == (a - b + UsizeModulus) % UsizeModulus

wrapping_add(a, b) == (a + b) % UsizeModulus

\* Option<usize>
None == <<>>

Some(n) == <<n>>

\* ------------------------------------------------------------ data model

\* The authors blame attributes lines to (already abbreviated).
Authors == {"Jane D."}

\* BlameLine, reduced to the fields the viewer's control flow reads.
BlameLine(n, a) == [line_number |-> n, author |-> a]

RECURSIVE SetToAscending(_)
\* The ascending sequence of the numbers of a finite set.
SetToAscending(S) ==
    IF S = {} THEN <<>>
    ELSE LET m == CHOOSE x \in S : \A y \in S : y <= x
         IN Append(SetToAscending(S \ {m}), m)

\* The blame_lines of a FileVersion holding exactly the line numbers S,
\* sorted by line_number (struct FileVersion).
BlameLinesOf(S, a) ==
    LET asc == SetToAscending(S)
    IN [i \in 1..Len(asc) |-> BlameLine(asc[i], a)]

\* The row list with the given line numbers, in the given order.
RowsOf(nums) == [i \in 1..Len(nums) |-> BlameLine(nums[i], "Jane D.")]

\* --------------------------------------------------------- line-range filter

\* version.blame_lines.iter().map(|line| line.line_number).max().unwrap_or(0)
max_line_in_version(blame_lines) ==
    IF Len(blame_lines) = 0 THEN 0
    ELSE CHOOSE m \in {blame_lines[i].line_number : i \in 1..Len(blame_lines)} :
            \A i \in 1..Len(blame_lines) : blame_lines[i].line_number <= m

adjusted_end_line(blame_lines, end) ==
    IF end > max_line_in_version(blame_lines)
    THEN max_line_in_version(blame_lines)
    ELSE end

\* A filter that drops the row on the window's first line.
filtered_lines_exclusive_start(blame_lines, start, end) ==
    LET adjusted == adjusted_end_line(blame_lines, end)
    IN SelectSeq(blame_lines,
                 LAMBDA line : /\ line.line_number > start
                               /\ line.line_number <= adjusted)

\* version.blame_lines.iter().filter(start_line <= n <= adjusted_end_line)
filtered_lines(blame_lines, start, end) ==
    LET adjusted == adjusted_end_line(blame_lines, end)
    IN SelectSeq(blame_lines,
                 LAMBDA line : /\ line.line_number >= start
                               /\ line.line_number <= adjusted)

\* -------------------------------------------------- cross-version line tracker

\* filtered_lines.iter().position(|line| line.line_number == target_line)
position(rows, target) ==
    IF \E i \in 1..Len(rows) : rows[i].line_number = target
    THEN Some((CHOOSE i \in 1..Len(rows) :
                  /\ rows[i].line_number = target
                  /\ \A j \in 1..(i - 1) : rows[j].line_number # target) - 1)
    ELSE None

\* The distance with its else branch lost: every row at or above the target
\* line counts as distance 0.
abs_diff_one_sided(a, b) == saturating_sub(a, b)

\* if line.line_number > target_line { a - b } else { b - a }
abs_diff(a, b) == IF a > b THEN a - b ELSE b - a

RECURSIVE closest_scan_keeps_last(_, _, _, _, _)
\* The scan with <= in place of <: a tie moves to the later row.
closest_scan_keeps_last(rows, target, pos, closest_pos, min_distance) ==
    IF pos >= Len(rows) THEN closest_pos
    ELSE LET distance == abs_diff(rows[pos + 1].line_number, target)
         IN IF distance <= min_distance
            THEN closest_scan_keeps_last(rows, target, pos + 1, pos, distance)
            ELSE closest_scan_keeps_last(rows, target, pos + 1, closest_pos, min_distance)

RECURSIVE closest_scan(_, _, _, _, _)
\* The for loop of find_closest_line_in_filtered from row pos on, with the
\* loop's two variables closest_pos and min_distance.
closest_scan(rows, target, pos, closest_pos, min_distance) ==
    IF pos >= Len(rows) THEN closest_pos
    ELSE LET distance == abs_diff(rows[pos + 1].line_number, target)
         IN IF distance < min_distance
            THEN closest_scan(rows, target, pos + 1, pos, distance)
            ELSE closest_scan(rows, target, pos + 1, closest_pos, min_distance)

find_closest_line_in_filtered(rows, target) ==
    IF Len(rows) = 0 THEN None
    ELSE IF position(rows, target) # None THEN position(rows, target)
    ELSE Some(closest_scan(rows, target, 0, 0, UsizeMax))

get_current_target_line(rows, scroll_offset, content_height) ==
    LET visible_start == scroll_offset
        visible_end == Min(wrapping_add(scroll_offset, content_height \div 2), Len(rows))
        idx == Max(visible_start, saturating_sub(visible_end, 1))
    IN IF idx < Len(rows) THEN rows[idx + 1].line_number
       ELSE IF Len(rows) > 0 THEN rows[1].line_number
       ELSE 1

\* ------------------------------------------------------------------- text

\* A string is the sequence of its characters, a text the sequence of its
\* lines (str::lines).  All characters are ASCII: a byte offset is a
\* character offset.

Digits == <<"0", "1", "2", "3", "4", "5", "6", "7", "8", "9">>

is_digit(c) == \E d \in 1..10 : Digits[d] = c

digit_value(c) == (CHOOSE d \in 1..10 : Digits[d] = c) - 1

is_whitespace(c) == c \in {" ", "\t"}

\* str::starts_with(prefix)
starts_with(s, prefix) ==
    /\ Len(s) >= Len(prefix)
    /\ SubSeq(s, 1, Len(prefix)) = prefix

\* &s[from..]
slice_from(s, from) == SubSeq(s, from + 1, Len(s))

\* &s[from..to]
slice(s, from, to) == SubSeq(s, from + 1, to)

\* str::find(char): the 0-based offset of the first occurrence.
find(s, c) ==
    IF \E i \in 1..Len(s) : s[i] = c
    THEN Some((CHOOSE i \in 1..Len(s) : s[i] = c /\ \A j \in 1..(i - 1) : s[j] # c) - 1)
    ELSE None

\* str::contains(char)
contains(s, c) == \E i \in 1..Len(s) : s[i] = c

RECURSIVE split_scan(_, _, _, _, _)
split_scan(s, sep, i, field, parts) ==
    IF i > Len(s) THEN Append(parts, field)
    ELSE IF s[i] = sep THEN split_scan(s, sep, i + 1, <<>>, Append(parts, field))
    ELSE split_scan(s, sep, i + 1, Append(field, s[i]), parts)

\* str::split(char).collect(): every separator ends a field, empty fields
\* included.
split(s, sep) == split_scan(s, sep, 1, <<>>, <<>>)

RECURSIVE split_whitespace_scan(_, _, _, _)
split_whitespace_scan(s, i, word, parts) ==
    LET closed == IF word = <<>> THEN parts ELSE Append(parts, word)
    IN IF i > Len(s) THEN closed
       ELSE IF is_whitespace(s[i]) THEN split_whitespace_scan(s, i + 1, <<>>, closed)
       ELSE split_whitespace_scan(s, i + 1, Append(word, s[i]), parts)

\* str::split_whitespace().collect(): the maximal runs of non-blanks.
split_whitespace(s) == split_whitespace_scan(s, 1, <<>>, <<>>)

RECURSIVE decimal_value(_, _)
decimal_value(s, acc) ==
    IF s = <<>> THEN acc
    ELSE decimal_value(Tail(s), Min(acc * 10 + digit_value(Head(s)), UsizeModulus))

\* str::parse::<usize>(): an optional '+', then one or more digits, the value
\* within usize.
parse_usize(s) ==
    LET digits == IF s # <<>> /\ Head(s) = "+" THEN Tail(s) ELSE s
    IN IF digits # <<>> /\ (\A i \in 1..Len(digits) : is_digit(digits[i]))
          /\ decimal_value(digits, 0) <= UsizeMax
       THEN Some(decimal_value(digits, 0))
       ELSE None

\* Option::unwrap_or(default)
unwrap_or(option, default) == IF option = None THEN default ELSE option[1]

\* -------------------------------------------------------- commit-line parser

CommitInfo(hash, date, author, message) ==
    [hash |-> hash, date |-> date, author |-> author, message |-> message]

\* parse_commit_line(line)
parse_commit_line(line) ==
    LET parts == split(line, "|")
    IN IF Len(parts) >= 4
       THEN Some(CommitInfo(parts[1], parts[2], parts[3], parts[4]))
       ELSE None

\* ------------------------------------------------------------- blame parser

\* str::parse::<i64>(): an optional sign, then one or more digits.
parse_i64(s) ==
    IF s # <<>> /\ Head(s) = "-"
    THEN IF parse_usize(Tail(s)) # None /\ Head(Tail(s)) # "+"
         THEN Some(0 - parse_usize(Tail(s))[1])
         ELSE None
    ELSE parse_usize(s)

RECURSIVE decimal_digits(_)
decimal_digits(n) ==
    IF n < 10 THEN <<Digits[n + 1]>>
    ELSE Append(decimal_digits(n \div 10), Digits[(n % 10) + 1])

RECURSIVE zero_padded(_, _)
\* format!("{:0width$}", n)
zero_padded(n, width) ==
    LET digits == decimal_digits(n)
    IN IF Len(digits) >= width THEN digits
       ELSE <<"0">> \o zero_padded(n, width - 1)

\* format_timestamp(timestamp).  A negative timestamp cast to u64 is past
\* what UNIX_EPOCH.checked_add accepts.
format_timestamp(timestamp) ==
    IF timestamp < 0 THEN <<"u", "n", "k", "n", "o", "w", "n">>
    ELSE LET days == timestamp \div 86400
             year == 1970 + (days \div 365)
             day_of_year == days % 365
             month == (day_of_year \div 30) + 1
             day == (day_of_year % 30) + 1
         IN zero_padded(year, 4) \o <<"-">> \o zero_padded(Min(month, 12), 2)
            \o <<"-">> \o zero_padded(Min(day, 31), 2)

\* The abbreviation with the whole second word kept.
abbreviate_author_whole_word(author) ==
    LET parts == split_whitespace(author)
    IN IF Len(parts) >= 2
       THEN parts[1] \o <<" ">> \o parts[2] \o <<".">>
       ELSE author

\* abbreviate_author(author)
abbreviate_author(author) ==
    LET parts == split_whitespace(author)
    IN IF Len(parts) >= 2
       THEN parts[1] \o <<" ">> \o <<parts[2][1]>> \o <<".">>
       ELSE author

\* A BlameLine as the parser builds it.  highlighted_content, the content
\* with terminal colour escapes, is left out.
ParsedBlameLine(line_number, author, date, commit_hash, commit_message, content) ==
    [line_number |-> line_number, author |-> author, date |-> date,
     commit_hash |-> commit_hash, commit_message |-> commit_message,
     content |-> content]

\* The four String::new() of lines 429-432.
EmptyRecordFields ==
    [author |-> <<>>, date |-> <<>>, commit_message |-> <<>>, content |-> <<>>]

AuthorPrefix == <<"a", "u", "t", "h", "o", "r", " ">>
AuthorTimePrefix == <<"a", "u", "t", "h", "o", "r", "-", "t", "i", "m", "e", " ">>
SummaryPrefix == <<"s", "u", "m", "m", "a", "r", "y", " ">>

RECURSIVE blame_record_scan(_, _, _)
\* The inner loop of lines 435-452 from index i on: the index it stops at
\* and the fields it has collected.
blame_record_scan(lines, i, fields) ==
    IF i >= Len(lines) THEN [i |-> i, fields |-> fields]
    ELSE LET info_line == lines[i + 1]
         IN IF starts_with(info_line, AuthorPrefix)
            THEN blame_record_scan(lines, i + 1,
                     [fields EXCEPT !.author = slice_from(info_line, 7)])
            ELSE IF starts_with(info_line, AuthorTimePrefix)
            THEN blame_record_scan(lines, i + 1,
                     IF parse_i64(slice_from(info_line, 12)) # None
                     THEN [fields EXCEPT !.date =
                               format_timestamp(parse_i64(slice_from(info_line, 12))[1])]
                     ELSE fields)
            ELSE IF starts_with(info_line, SummaryPrefix)
            THEN blame_record_scan(lines, i + 1,
                     [fields EXCEPT !.commit_message = slice_from(info_line, 8)])
            ELSE IF starts_with(info_line, <<"\t">>)
            THEN [i |-> i + 1,
                  fields |-> [fields EXCEPT !.content = slice_from(info_line, 1)]]
            ELSE blame_record_scan(lines, i + 1, fields)

RECURSIVE blame_scan(_, _, _)
\* The outer loop of lines 421-479 from index i on.
blame_scan(lines, i, blame_lines) ==
    IF i >= Len(lines) THEN blame_lines
    ELSE LET parts == split_whitespace(lines[i + 1])
         IN IF Len(parts) >= 3 /\ Len(parts[1]) >= 7
            THEN LET record == blame_record_scan(lines, i + 1, EmptyRecordFields)
                 IN blame_scan(lines, record.i,
                        Append(blame_lines,
                               ParsedBlameLine(unwrap_or(parse_usize(parts[3]), 0),
                                               abbreviate_author(record.fields.author),
                                               record.fields.date,
                                               slice(parts[1], 0, 7),
                                               record.fields.commit_message,
                                               record.fields.content)))
            ELSE blame_scan(lines, i + 1, blame_lines)

\* parse_blame_output_with_highlighting(blame_text, file_path), blame_text
\* given as its lines.
parse_blame_output_with_highlighting(blame_text) == blame_scan(blame_text, 0, <<>>)

\* ----------------------------------------------------------- diff extractor

LineChange(line_number, change_type, content) ==
    [line_number |-> line_number, change_type |-> change_type, content |-> content]

\* Lines 753-761: the counter after a line that starts with "@@".
hunk_line_number(line, line_number) ==
    LET plus_pos == find(line, "+")
        after_plus == slice_from(line, plus_pos[1])
        comma_pos == find(after_plus, ",")
        space_pos == find(after_plus, " ")
    IN IF plus_pos = None THEN line_number
       ELSE IF comma_pos # None
       THEN unwrap_or(parse_usize(slice(line, plus_pos[1] + 1, plus_pos[1] + comma_pos[1])), 1)
       ELSE IF space_pos # None
       THEN unwrap_or(parse_usize(slice(line, plus_pos[1] + 1, plus_pos[1] + space_pos[1])), 1)
       ELSE line_number

HunkPrefix == <<"@", "@">>
CommitPrefix == <<"c", "o", "m", "m", "i", "t", " ">>
DiffGitPrefix == <<"d", "i", "f", "f", " ", "-", "-", "g", "i", "t">>
NewFilePrefix == <<"+", "+", "+">>
OldFilePrefix == <<"-", "-", "-">>

RECURSIVE diff_scan(_, _, _, _, _)
\* The loop of lines 748-792 from the k-th line on.
diff_scan(lines, k, in_diff, line_number, changes) ==
    IF k > Len(lines) THEN changes
    ELSE LET line == lines[k]
         IN IF starts_with(line, HunkPrefix)
            THEN diff_scan(lines, k + 1, TRUE, hunk_line_number(line, line_number), changes)
            ELSE IF ~in_diff
            THEN diff_scan(lines, k + 1, in_diff, line_number, changes)
            ELSE IF starts_with(line, CommitPrefix) \/ starts_with(line, DiffGitPrefix)
            THEN changes
            ELSE IF starts_with(line, <<"+">>) /\ ~starts_with(line, NewFilePrefix)
            THEN diff_scan(lines, k + 1, in_diff, line_number + 1,
                           Append(changes, LineChange(line_number, "Added", slice_from(line, 1))))
            ELSE IF starts_with(line, <<"-">>) /\ ~starts_with(line, OldFilePrefix)
            THEN diff_scan(lines, k + 1, in_diff, line_number,
                           Append(changes, LineChange(line_number, "Removed", slice_from(line, 1))))
            ELSE IF starts_with(line, <<" ">>)
            THEN diff_scan(lines, k + 1, in_diff, line_number + 1, changes)
            ELSE diff_scan(lines, k + 1, in_diff, line_number, changes)

\* parse_diff_output(diff_text), diff_text given as its lines.
parse_diff_output(diff_text) == diff_scan(diff_text, 1, FALSE, 0, <<>>)

\* --------------------------------------------------------- external queries

\* What Command::output() gives for one run of git: whether the process
\* could be started, whether it exited with status 0, whether its stdout is
\* UTF-8, and that stdout as its lines.
SpawnFailed ==
    [spawned |-> FALSE, success |-> FALSE, valid_utf8 |-> FALSE, stdout |-> <<>>]

Exited(success, valid_utf8, stdout) ==
    [spawned |-> TRUE, success |-> success, valid_utf8 |-> valid_utf8, stdout |-> stdout]

\* Result<T, String>
Ok(value) == [ok |-> TRUE, value |-> value]

Err(error) == [ok |-> FALSE, error |-> error]

RECURSIVE line_history_commits(_, _, _)
\* The loop of lines 277-283 from the k-th line on.
line_history_commits(lines, k, commits) ==
    IF k > Len(lines) THEN commits
    ELSE IF contains(lines[k], "|") /\ parse_commit_line(lines[k]) # None
    THEN line_history_commits(lines, k + 1, Append(commits, parse_commit_line(lines[k])[1]))
    ELSE line_history_commits(lines, k + 1, commits)

\* get_line_history(file_path, start_line, end_line), given what git log -L
\* did.
get_line_history(output) ==
    IF ~output.spawned THEN Err("Failed to run git command")
    ELSE IF ~output.success THEN Err("Git command failed")
    ELSE IF ~output.valid_utf8 THEN Err("Invalid UTF-8 in git output")
    ELSE Ok(line_history_commits(output.stdout, 1, <<>>))

RECURSIVE filter_map_parse_commit_line(_)
\* lines().filter_map(parse_commit_line).collect()
filter_map_parse_commit_line(lines) ==
    IF lines = <<>> THEN <<>>
    ELSE parse_commit_line(Head(lines)) \o filter_map_parse_commit_line(Tail(lines))

\* get_file_history(file_path), given what git log --follow did.
get_file_history(output) ==
    IF ~output.spawned THEN Err("Failed to run git command")
    ELSE IF ~output.success THEN Err("Git command failed")
    ELSE IF ~output.valid_utf8 THEN Err("Invalid UTF-8 in git output")
    ELSE Ok(filter_map_parse_commit_line(output.stdout))

\* get_blame_for_commit(commit_hash, file_path), given what git blame did.
get_blame_for_commit(output) ==
    IF ~output.spawned THEN Err("Failed to run git blame")
    ELSE IF ~output.success THEN Err("Git blame failed")
    ELSE IF ~output.valid_utf8 THEN Err("Invalid UTF-8 in git blame output")
    ELSE Ok(parse_blame_output_with_highlighting(output.stdout))

\* get_commit_changes(commit_hash, file_path, start_line, end_line), given
\* what git show -L did.
get_commit_changes(output) ==
    IF ~output.spawned THEN Err("Failed to run git show")
    ELSE IF ~output.success THEN Ok(<<>>)
    ELSE IF ~output.valid_utf8 THEN Err("Invalid UTF-8 in git show output")
    ELSE Ok(parse_diff_output(output.stdout))

\* ------------------------------------------------------------------ state

VARIABLES
    versions,          \* Vec<FileVersion> moved into the viewer
    start_line,        \* the requested inclusive window
    end_line,
    terminal_width,    \* what crossterm::terminal::size() reports; the
    terminal_height,   \*   terminal is not resized during the session
    overflow_checks,   \* TRUE: arithmetic overflow panics (a debug build);
                       \*   FALSE: it wraps (a release build)
    pc,                \* where run_interactive_viewer stands
    raw_mode,          \* the terminal is in raw mode
    alt_screen,        \* the terminal shows the alternate screen
    mouse_capture,     \* the function has switched pointer reporting on
    entered,           \* history: raw mode and the alternate screen were
                       \*   both entered, so the loop was reached
    current_version,
    scroll_offset,
    target_line,       \* Option<usize>: the anchor
    content_height,    \* the loop iteration's locals, as the last render
    display_end,       \*   computed them
    last_event,        \* the input event the last iteration handled
    probe_rows,        \* the tracker called on its own: its arguments
    probe_target,
    probe_result       \*   and, once called, <<its result>>

viewer_vars ==
    <<versions, start_line, end_line, terminal_width, terminal_height,
      overflow_checks, pc, raw_mode, alt_screen, mouse_capture, entered,
      current_version, scroll_offset, target_line, content_height, display_end,
      last_event>>

probe_vars == <<probe_rows, probe_target, probe_result>>

\* A call of one of the functions below run_interactive_viewer's callers:
\* which function, its argument, and what it returned (<<>> until it has).
VARIABLES lib_call, lib_arg, lib_ret

lib_vars == <<lib_call, lib_arg, lib_ret>>

\* The process from main on: the parsed command line (subcommand, reverse,
\* and line_range, the window parse_file_range made of the argument), where
\* control is (cmd_pc), get_file_versions' commits still to blame and its
\* versions vector (file_versions), every query issued so far with its
\* outcome (queries), the messages printed on stdout and stderr, and the
\* exit status once the process has ended.
VARIABLES subcommand, reverse, line_range, cmd_pc, commits, file_versions,
          queries, stdout_log, stderr_log, exit_status

cmd_vars ==
    <<subcommand, reverse, line_range, cmd_pc, commits, file_versions,
      queries, stdout_log, stderr_log, exit_status>>

vars == <<viewer_vars, probe_vars, lib_vars, cmd_vars>>

\* struct FileVersion, reduced to its blame_lines.
FileVersion(blame_lines) == [blame_lines |-> blame_lines]

\* The rows the current iteration filtered out of the version on display.
CurrentFiltered ==
    filtered_lines(versions[current_version + 1].blame_lines, start_line, end_line)

\* ------------------------------------------------------------------ inputs

\* File versions as blame reports them: lines 1..n, n up to MaxLine.
BlameLists == {BlameLinesOf(1..n, a) : n \in 0..MaxLine, a \in Authors}

RECURSIVE SeqsUpTo(_, _)
\* The sequences over S of length at most n.
SeqsUpTo(S, n) ==
    IF n = 0 THEN {<<>>}
    ELSE LET shorter == SeqsUpTo(S, n - 1)
         IN shorter \cup {Append(q, x) : q \in {r \in shorter : Len(r) = n - 1}, x \in S}

VersionSequences ==
    {[i \in 1..Len(q) |-> FileVersion(q[i])] : q \in SeqsUpTo(BlameLists, MaxVersions)}

\* <<start_line, end_line>>: the file subcommand's 1..usize::MAX and what
\* parse_file_range can hand over, a reversed window included.
Windows == {<<1, UsizeMax>>} \cup {<<s, e>> : s \in 1..2, e \in {1, MaxLine}}

\* <<terminal_width, terminal_height>>: heights around the 4 reserved rows,
\* and one terminal narrower than the 20 reserved columns.
TerminalSizes == {<<80, h>> : h \in 3..7} \cup {<<19, 6>>}

\* spec.md section 8: the file before and after line 7 was deleted.
DeletedLineVersions ==
    <<FileVersion(RowsOf(<<5, 6, 7>>)), FileVersion(RowsOf(<<5, 6, 8, 9>>))>>

\* spec.md section 8: window [1,1000] on a version whose last line is 42.
LongVersion == <<FileVersion(BlameLinesOf(1..42, "Jane D."))>>

\* A file of 8 lines cut down to 4: the line on display before the switch
\* lies past the end of the version switched to.
TruncatedFileVersions ==
    <<FileVersion(BlameLinesOf(1..8, "Jane D.")), FileVersion(BlameLinesOf(1..4, "Jane D."))>>

\* Two commits that left the file's 5 lines as they were: the rows on
\* display are the same before and after a switch.
UnchangedFileVersions ==
    <<FileVersion(BlameLinesOf(1..5, "Jane D.")), FileVersion(BlameLinesOf(1..5, "Jane D."))>>

\* A file of 3 lines whose authors alternate: each row opens an author
\* block.
AlternatingAuthorVersions ==
    <<FileVersion(<<BlameLine(1, "Jane D."), BlameLine(2, "John S."),
                    BlameLine(3, "Jane D.")>>)>>

Sessions ==
    {<<v, w, t>> : v \in VersionSequences, w \in Windows, t \in TerminalSizes}
    \cup {<<DeletedLineVersions, <<1, UsizeMax>>, t>> : t \in TerminalSizes}
    \cup {<<TruncatedFileVersions, <<1, UsizeMax>>, t>> : t \in {<<80, 7>>, <<80, 8>>}}
    \cup {<<LongVersion, <<1, 1000>>, t>> : t \in {<<80, 7>>, <<80, 24>>}}
    \cup {<<UnchangedFileVersions, <<1, UsizeMax>>, t>> : t \in {<<80, 5>>, <<80, 6>>, <<80, 7>>}}
    \cup {<<AlternatingAuthorVersions, <<1, UsizeMax>>, t>> : t \in {<<80, 6>>, <<80, 10>>}}

ProbeIdle ==
    /\ probe_rows = <<>>
    /\ probe_target = 0
    /\ probe_result = <<>>

LibIdle ==
    /\ lib_call = "none"
    /\ lib_arg = <<>>
    /\ lib_ret = <<>>

CmdIdle ==
    /\ subcommand = "none"
    /\ reverse = FALSE
    /\ line_range = <<1, UsizeMax>>
    /\ cmd_pc = "idle"
    /\ commits = <<>>
    /\ file_versions = <<>>
    /\ queries = <<>>
    /\ stdout_log = <<>>
    /\ stderr_log = <<>>
    /\ exit_status = None

\* run_interactive_viewer has been called and has not run a statement yet.
Init ==
    /\ \E s \in Sessions :
        /\ versions = s[1]
        /\ start_line = s[2][1]
        /\ end_line = s[2][2]
        /\ terminal_width = s[3][1]
        /\ terminal_height = s[3][2]
    /\ overflow_checks \in BOOLEAN
    /\ pc = "enable_raw"
    /\ raw_mode = FALSE
    /\ alt_screen = FALSE
    /\ mouse_capture = FALSE
    /\ entered = FALSE
    /\ current_version = 0
    /\ scroll_offset = 0
    /\ target_line = None
    /\ content_height = 0
    /\ display_end = 0
    /\ last_event = "none"
    /\ ProbeIdle
    /\ LibIdle
    /\ CmdIdle

\* What no statement of run_interactive_viewer changes: its arguments, the
\* terminal's size, the build, and the terminal's pointer reporting (the
\* function has no EnableMouseCapture and no DisableMouseCapture).
Frame ==
    UNCHANGED <<versions, start_line, end_line, terminal_width, terminal_height,
                overflow_checks, mouse_capture, probe_vars, lib_vars, cmd_vars>>

\* The loop's locals once the loop is left: dropped.
LocalsDropped ==
    /\ current_version' = 0
    /\ scroll_offset' = 0
    /\ target_line' = None
    /\ content_height' = 0
    /\ display_end' = 0

\* A `?` or a panic leaves the function; the terminal stays as it is.
Leave(how) ==
    /\ pc' = how
    /\ LocalsDropped
    /\ UNCHANGED <<raw_mode, alt_screen, entered, last_event>>
    /\ Frame

\* ------------------------------------------------------- entering the loop

\* enable_raw_mode()?
EnableRawMode ==
    /\ pc = "enable_raw"
    /\ \/ /\ raw_mode' = TRUE
          /\ pc' = "enter_alt"
       \/ /\ raw_mode' = raw_mode
          /\ pc' = "returned_err"
    /\ UNCHANGED <<alt_screen, entered, current_version, scroll_offset,
                   target_line, content_height, display_end, last_event>>
    /\ Frame

\* execute!(stdout, EnterAlternateScreen)?
EnterAlternateScreen ==
    /\ pc = "enter_alt"
    /\ \/ /\ alt_screen' = TRUE
          /\ entered' = TRUE
          /\ pc' = "render"
       \/ /\ alt_screen' = alt_screen
          /\ entered' = entered
          /\ pc' = "returned_err"
    /\ UNCHANGED <<raw_mode, current_version, scroll_offset, target_line,
                   content_height, display_end, last_event>>
    /\ Frame

\* --------------------------------------------------------------- rendering

\* let content_height = terminal_height as usize - 4, without overflow checks
render_content_height ==
    IF terminal_height >= 4 THEN terminal_height - 4
    ELSE wrapping_sub(terminal_height, 4)

\* let content_width = terminal_width as usize - 20, without overflow checks
render_content_width ==
    IF terminal_width >= 20 THEN terminal_width - 20
    ELSE wrapping_sub(terminal_width, 20)

\* The centring without the clamp to the last full window.
anchored_scroll_offset_unclamped(closest_pos, height, len) ==
    saturating_sub(closest_pos, height \div 2)

\* Center the view around the closest line, then keep the window inside the
\* rows.
anchored_scroll_offset(closest_pos, height, len) ==
    LET centred == saturating_sub(closest_pos, height \div 2)
    IN IF wrapping_add(centred, height) > len
       THEN saturating_sub(len, height)
       ELSE centred

\* The scroll_offset the body is drawn from: the anchor, when one is pending
\* and the tracker finds a row, overwrites it.
render_scroll_offset(rows, height) ==
    IF target_line # None /\ find_closest_line_in_filtered(rows, target_line[1]) # None
    THEN anchored_scroll_offset(
             find_closest_line_in_filtered(rows, target_line[1])[1], height, Len(rows))
    ELSE scroll_offset

RECURSIVE author_headers(_, _, _, _)
\* The author header lines the body loop prints for rows i..display_end-1:
\* one before each row whose author is not last_author, the author of the
\* row before it (the empty string before the first row).
author_headers(rows, i, end, last_author) ==
    IF i >= end THEN 0
    ELSE IF last_author # rows[i + 1].author
         THEN 1 + author_headers(rows, i + 1, end, rows[i + 1].author)
         ELSE author_headers(rows, i + 1, end, last_author)

\* The terminal lines the body loop of the last pass printed: for each row
\* of scroll_offset..display_end its line, and its author header if one was
\* due.
body_lines_printed ==
    saturating_sub(display_end, scroll_offset)
        + author_headers(CurrentFiltered, scroll_offset, display_end, "")

\* Where an iteration panics before it reads input: the content_height
\* subtraction (with overflow checks), versions[current_version] on an empty
\* sequence, the content_width subtraction (with overflow checks).
RenderWouldPanic ==
    \/ terminal_height < 4 /\ overflow_checks
    \/ current_version >= Len(versions)
    \/ terminal_width < 20 /\ overflow_checks

\* terminal::size()?, an execute!(...)? or stdout.flush()? returns an error.
RenderFails ==
    /\ pc = "render"
    /\ Leave("returned_err")

RenderPanics ==
    /\ pc = "render"
    /\ RenderWouldPanic
    /\ Leave("panicked")

\* One pass of the loop body up to stdout.flush(): header, filtered body,
\* footer.  Commit metadata is taken to be ASCII, so that the byte slice of
\* the commit line falls on a character boundary.
RenderDraws ==
    /\ pc = "render"
    /\ ~RenderWouldPanic
    /\ content_height' = render_content_height
    /\ scroll_offset' = render_scroll_offset(CurrentFiltered, render_content_height)
    /\ display_end' = Min(wrapping_add(scroll_offset', render_content_height),
                          Len(CurrentFiltered))
    /\ last_event' = "none"
    /\ pc' = "await"
    /\ UNCHANGED <<raw_mode, alt_screen, entered, current_version, target_line>>
    /\ Frame

\* ------------------------------------------------------------------ input

\* The event is handled and the loop goes round.
Handled(ev, version, offset, anchor) ==
    /\ pc' = "render"
    /\ last_event' = ev
    /\ current_version' = version
    /\ scroll_offset' = offset
    /\ target_line' = anchor
    /\ UNCHANGED <<raw_mode, alt_screen, entered, content_height, display_end>>
    /\ Frame

\* event::read()? returns an error.
ReadFails ==
    /\ pc = "await"
    /\ Leave("returned_err")

\* The anchor a version switch arms.
switch_anchor ==
    Some(get_current_target_line(CurrentFiltered, scroll_offset, content_height))

KeyLeft ==
    /\ pc = "await"
    /\ IF current_version > 0
       THEN Handled("Left", current_version - 1, scroll_offset, switch_anchor)
       ELSE Handled("Left", current_version, scroll_offset, target_line)

\* A Right whose guard admits the last index: versions.len() for
\* versions.len() - 1.
KeyRight_past_last ==
    /\ pc = "await"
    /\ IF current_version < Len(versions)
       THEN Handled("Right", current_version + 1, scroll_offset, switch_anchor)
       ELSE Handled("Right", current_version, scroll_offset, target_line)

KeyRight ==
    /\ pc = "await"
    /\ IF current_version < Len(versions) - 1
       THEN Handled("Right", current_version + 1, scroll_offset, switch_anchor)
       ELSE Handled("Right", current_version, scroll_offset, target_line)

KeyUp ==
    /\ pc = "await"
    /\ IF scroll_offset > 0
       THEN Handled("Up", current_version, scroll_offset - 1, None)
       ELSE Handled("Up", current_version, scroll_offset, target_line)

KeyDown ==
    /\ pc = "await"
    /\ IF wrapping_add(scroll_offset, content_height) < Len(CurrentFiltered)
       THEN Handled("Down", current_version, scroll_offset + 1, None)
       ELSE Handled("Down", current_version, scroll_offset, target_line)

KeyPageUp ==
    /\ pc = "await"
    /\ Handled("PageUp", current_version,
               saturating_sub(scroll_offset, content_height \div 2), None)

KeyPageDown ==
    /\ pc = "await"
    /\ Handled("PageDown", current_version,
               Min(wrapping_add(scroll_offset, content_height \div 2),
                   saturating_sub(Len(CurrentFiltered), content_height)),
               None)

KeyHome ==
    /\ pc = "await"
    /\ Handled("Home", current_version, 0, None)

\* An End that jumps to the last row instead of the last full window.
end_scroll_offset_last_row(len, height) == saturating_sub(len, 1)

\* filtered_lines.len().saturating_sub(content_height)
end_scroll_offset(len, height) == saturating_sub(len, height)

KeyEnd ==
    /\ pc = "await"
    /\ Handled("End", current_version,
               end_scroll_offset(Len(CurrentFiltered), content_height), None)

\* The wheel arms.  The function never switches pointer reporting on, so a
\* wheel event is read only on a terminal that reports the pointer without
\* being asked; the events are left free to arrive.
MouseScrollUp ==
    /\ pc = "await"
    /\ Handled("ScrollUp", current_version, saturating_sub(scroll_offset, 3), None)

\* The subtraction of line 703 without the comparison that guards it.
max_scroll_unguarded == Len(CurrentFiltered) - content_height

max_scroll ==
    IF Len(CurrentFiltered) > content_height
    THEN Len(CurrentFiltered) - content_height
    ELSE 0

MouseScrollDown ==
    /\ pc = "await"
    /\ Handled("ScrollDown", current_version,
               Min(wrapping_add(scroll_offset, 3), max_scroll), None)

\* An event other than a press of 'q' that leaves the loop all the same.
OtherEvent_breaks ==
    /\ pc = "await"
    /\ pc' = "disable_raw"
    /\ last_event' = "Other"
    /\ LocalsDropped
    /\ UNCHANGED <<raw_mode, alt_screen, entered>>
    /\ Frame

\* Any other key, a key event that is not a press (a release or repeat of
\* 'q' among them), any other mouse event, a resize, focus or paste event:
\* the `_ => {}` arms.
OtherEvent ==
    /\ pc = "await"
    /\ Handled("Other", current_version, scroll_offset, target_line)

\* KeyCode::Char('q') => break
KeyQuit ==
    /\ pc = "await"
    /\ pc' = "disable_raw"
    /\ last_event' = "q"
    /\ LocalsDropped
    /\ UNCHANGED <<raw_mode, alt_screen, entered>>
    /\ Frame

\* ----------------------------------------------------------------- cleanup

\* disable_raw_mode()?
DisableRawMode ==
    /\ pc = "disable_raw"
    /\ \/ /\ raw_mode' = FALSE
          /\ pc' = "leave_alt"
       \/ /\ raw_mode' = raw_mode
          /\ pc' = "returned_err"
    /\ UNCHANGED <<alt_screen, entered, current_version, scroll_offset,
                   target_line, content_height, display_end, last_event>>
    /\ Frame

\* execute!(stdout, LeaveAlternateScreen)?; Ok(())
LeaveAlternateScreen ==
    /\ pc = "leave_alt"
    /\ \/ /\ alt_screen' = FALSE
          /\ pc' = "returned_ok"
       \/ /\ alt_screen' = alt_screen
          /\ pc' = "returned_err"
    /\ UNCHANGED <<raw_mode, entered, current_version, scroll_offset,
                   target_line, content_height, display_end, last_event>>
    /\ Frame

\* ------------------------------------------------------------ specification

Next ==
    \/ EnableRawMode
    \/ EnterAlternateScreen
    \/ RenderFails
    \/ RenderPanics
    \/ RenderDraws
    \/ ReadFails
    \/ KeyLeft
    \/ KeyRight
    \/ KeyUp
    \/ KeyDown
    \/ KeyPageUp
    \/ KeyPageDown
    \/ KeyHome
    \/ KeyEnd
    \/ MouseScrollUp
    \/ MouseScrollDown
    \/ OtherEvent
    \/ KeyQuit
    \/ DisableRawMode
    \/ LeaveAlternateScreen

Spec == Init /\ [][Next]_vars

\* ------------------------------------------ the tracker called on its own

\* Row lists in any order, duplicates included, and the two lists of
\* spec.md section 8.
ProbeRowLists ==
    {RowsOf(q) : q \in SeqsUpTo(0..MaxProbeLine, MaxProbeRows)}
    \cup {RowsOf(<<5, 6, 7>>), RowsOf(<<5, 6, 8, 9>>)}

ProbeTargets == 0..(MaxProbeLine + 1) \cup {7, UsizeMax}

\* No viewer is running; find_closest_line_in_filtered is about to be called.
ProbeInit ==
    /\ versions = <<>>
    /\ start_line = 1
    /\ end_line = UsizeMax
    /\ terminal_width = 80
    /\ terminal_height = 24
    /\ overflow_checks = TRUE
    /\ pc = "probe"
    /\ raw_mode = FALSE
    /\ alt_screen = FALSE
    /\ mouse_capture = FALSE
    /\ entered = FALSE
    /\ current_version = 0
    /\ scroll_offset = 0
    /\ target_line = None
    /\ content_height = 0
    /\ display_end = 0
    /\ last_event = "none"
    /\ probe_rows \in ProbeRowLists
    /\ probe_target \in ProbeTargets
    /\ probe_result = <<>>
    /\ LibIdle
    /\ CmdIdle

\* find_closest_line_in_filtered(&probe_rows, probe_target)
CallTracker ==
    /\ pc = "probe"
    /\ probe_result = <<>>
    /\ probe_result' = <<find_closest_line_in_filtered(probe_rows, probe_target)>>
    /\ UNCHANGED <<viewer_vars, probe_rows, probe_target, lib_vars, cmd_vars>>

ProbeNext == CallTracker

ProbeSpec == ProbeInit /\ [][ProbeNext]_vars

\* ---------------------------------------------------------- library calls

\* No viewer is running.
ViewerIdle ==
    /\ versions = <<>>
    /\ start_line = 1
    /\ end_line = UsizeMax
    /\ terminal_width = 80
    /\ terminal_height = 24
    /\ overflow_checks = TRUE
    /\ raw_mode = FALSE
    /\ alt_screen = FALSE
    /\ mouse_capture = FALSE
    /\ entered = FALSE
    /\ current_version = 0
    /\ scroll_offset = 0
    /\ target_line = None
    /\ content_height = 0
    /\ display_end = 0
    /\ last_event = "none"

\* spec.md section 8: a commit message that holds the separator.
PipedMessageLine ==
    <<"h", "|", "2", "0", "2", "4", "-", "0", "1", "-", "0", "1", "|", "J", "a", "n", "e", " ", "D", "o", "e", "|", "f", "i", "x", "|", "t", "h", "e", "|", "b", "u", "g">>

\* Lines of git log --pretty=format:%H|%ad|%an|%s, and lines that are not.
CommitLines(max_len) ==
    SeqsUpTo({"a", "|"}, max_len) \cup {PipedMessageLine}

\* Lines of git blame --line-porcelain.
HeaderLine == <<"a", "b", "c", "d", "e", "f", "1", " ", "1", "0", " ", "5", " ", "3">>
LongHashHeaderLine == <<"0", "1", "2", "3", "4", "5", "6", "7", "8", "9", " ", "1", " ", "2">>
AuthorLine == <<"a", "u", "t", "h", "o", "r", " ", "J", "a", "n", "e", " ", "D", "o", "e">>
SingleNameAuthorLine == <<"a", "u", "t", "h", "o", "r", " ", "C", "h", "e", "r">>
AuthorTimeLine == <<"a", "u", "t", "h", "o", "r", "-", "t", "i", "m", "e", " ", "0">>
SummaryLine == <<"s", "u", "m", "m", "a", "r", "y", " ", "i", "n", "i", "t">>
ContentLine == <<"\t", "h", "e", "l", "l", "o">>
CommitterLine == <<"c", "o", "m", "m", "i", "t", "t", "e", "r", " ", "J", "a", "n", "e", " ", "D", "o", "e">>

BlameVocabulary ==
    {HeaderLine, LongHashHeaderLine, AuthorLine, SingleNameAuthorLine,
     AuthorTimeLine, SummaryLine, ContentLine, CommitterLine}

\* spec.md section 8: one complete record.
BlameBlock == <<HeaderLine, AuthorLine, AuthorTimeLine, SummaryLine, ContentLine>>

\* Every text of at most max_lines lines of the vocabulary, the block of
\* spec.md, the block followed by a record that the end of the output cuts
\* short, and two whole records.
BlameTexts(max_lines) ==
    SeqsUpTo(BlameVocabulary, max_lines)
    \cup {BlameBlock,
          BlameBlock \o <<LongHashHeaderLine, SingleNameAuthorLine>>,
          BlameBlock \o <<LongHashHeaderLine, SingleNameAuthorLine, CommitterLine, ContentLine>>}

\* Lines of git show output.
HunkHeaderLine == <<"@", "@", " ", "-", "1", ",", "3", " ", "+", "1", ",", "4", " ", "@", "@">>
NoCountHunkHeaderLine == <<"@", "@", " ", "-", "2", " ", "+", "5", " ", "@", "@">>
SectionHunkHeaderLine == <<"@", "@", " ", "-", "2", " ", "+", "5", " ", "@", "@", " ", "f", "(", "a", ",", " ", "b", ")">>
AddedLine == <<"+", "x">>
RemovedLine == <<"-", "y">>
ContextLine == <<" ", "z">>
NewFileLine == <<"+", "+", "+", " ", "b", "/", "f">>
OldFileLine == <<"-", "-", "-", " ", "a", "/", "f">>
DiffGitLine == <<"d", "i", "f", "f", " ", "-", "-", "g", "i", "t", " ", "a", "/", "f", " ", "b", "/", "f">>
CommitLine == <<"c", "o", "m", "m", "i", "t", " ", "0", "1", "2", "3", "4", "5", "6">>

DiffVocabulary ==
    {HunkHeaderLine, NoCountHunkHeaderLine, SectionHunkHeaderLine, AddedLine,
     RemovedLine, ContextLine, NewFileLine, OldFileLine, DiffGitLine, CommitLine}

\* spec.md section 8: one hunk with 2 additions and 1 deletion.
OneHunkDiff ==
    <<CommitLine, DiffGitLine, OldFileLine, NewFileLine, HunkHeaderLine,
      ContextLine, RemovedLine, AddedLine, AddedLine, ContextLine>>

DiffTexts(max_lines) == SeqsUpTo(DiffVocabulary, max_lines) \cup {OneHunkDiff}

\* The ways a run of git can end, its stdout one of the texts.
Outputs(texts) ==
    {SpawnFailed} \cup {Exited(success, valid_utf8, text) :
                            success \in BOOLEAN, valid_utf8 \in BOOLEAN, text \in texts}

HistoryTexts == {<<>>, <<PipedMessageLine>>, <<PipedMessageLine, <<"a">>, PipedMessageLine>>}

LibFunctions ==
    {"parse_commit_line", "get_line_history", "get_file_history",
     "get_blame_for_commit", "get_commit_changes", "parse_diff_output",
     "parse_blame_output_with_highlighting"}

\* The arguments a function is called with.
LibArguments(name) ==
    CASE name = "parse_commit_line" -> CommitLines(MaxCommitLineLen)
      [] name = "get_line_history" -> Outputs(HistoryTexts)
      [] name = "get_file_history" -> Outputs(HistoryTexts)
      [] name = "get_blame_for_commit" -> Outputs({<<>>, BlameBlock})
      [] name = "get_commit_changes" -> Outputs({<<>>, OneHunkDiff})
      [] name = "parse_diff_output" -> DiffTexts(MaxDiffTextLines)
      [] name = "parse_blame_output_with_highlighting" -> BlameTexts(MaxBlameTextLines)

\* One of the functions is about to be called.
LibInit ==
    /\ ViewerIdle
    /\ pc = "lib"
    /\ ProbeIdle
    /\ CmdIdle
    /\ lib_call \in LibFunctions
    /\ lib_arg \in LibArguments(lib_call)
    /\ lib_ret = <<>>

Returns(value) ==
    /\ lib_ret = <<>>
    /\ lib_ret' = <<value>>
    /\ UNCHANGED <<viewer_vars, probe_vars, lib_call, lib_arg, cmd_vars>>

CallParseCommitLine ==
    /\ lib_call = "parse_commit_line"
    /\ Returns(parse_commit_line(lib_arg))

CallParseBlameOutput ==
    /\ lib_call = "parse_blame_output_with_highlighting"
    /\ Returns(parse_blame_output_with_highlighting(lib_arg))

CallParseDiffOutput ==
    /\ lib_call = "parse_diff_output"
    /\ Returns(parse_diff_output(lib_arg))

CallGetLineHistory ==
    /\ lib_call = "get_line_history"
    /\ Returns(get_line_history(lib_arg))

CallGetFileHistory ==
    /\ lib_call = "get_file_history"
    /\ Returns(get_file_history(lib_arg))

CallGetBlameForCommit ==
    /\ lib_call = "get_blame_for_commit"
    /\ Returns(get_blame_for_commit(lib_arg))

CallGetCommitChanges ==
    /\ lib_call = "get_commit_changes"
    /\ Returns(get_commit_changes(lib_arg))

LibNext ==
    \/ CallParseCommitLine
    \/ CallGetLineHistory
    \/ CallGetFileHistory
    \/ CallGetBlameForCommit
    \/ CallGetCommitChanges
    \/ CallParseDiffOutput
    \/ CallParseBlameOutput

LibSpec == LibInit /\ [][LibNext]_vars

\* ------------------------------------------------------------- the process

\* The hash of the k-th commit of the file, the first being the oldest.
CommitHash(k) == <<"c", "0", "0", "0", "0", "0", "0", Digits[k + 1]>>

\* Its line in the output of git log --pretty=format:%H|%ad|%an|%s.
HistoryLine(k) == CommitHash(k) \o <<"|", "2", "0", "2", "4", "-", "0", "1", "-", "0", "1", "|", "J", "a", "n", "e", " ", "D", "o", "e", "|", "f", "i", "x">>

\* The log of a file of n commits: newest first.
HistoryText(n) == [i \in 1..n |-> HistoryLine(n - i + 1)]

\* A line git log -L prints between the commits.
PatchLine == <<"d", "i", "f", "f", " ", "-", "-", "g", "i", "t", " ", "a", "/", "f", " ", "b", "/", "f">>

\* What git log -L may do: fail, or print no commit, or one.
LineLogOutputs == Outputs({<<>>, <<HistoryLine(1), PatchLine>>})

\* What git log --follow may do: fail, or print up to MaxCommits commits.
FileLogOutputs ==
    Outputs({HistoryText(n) : n \in 0..MaxCommits} \cup {<<HistoryLine(1), PatchLine>>})

\* What git blame may do: fail, or print the one-line file.
BlameOutputs == Outputs({BlameBlock})

\* <<start_line, end_line>> as parse_file_range hands them to the lines
\* subcommand: the whole file, and a window the one-line file lies outside.
LineRanges == {<<1, UsizeMax>>, <<6, 7>>}

\* A FileVersion as get_file_versions builds it.
AssembledFileVersion(commit, blame_lines) ==
    [commit_hash |-> commit.hash, commit_date |-> commit.date,
     commit_message |-> commit.message, blame_lines |-> blame_lines]

\* The hashes of a Vec<CommitInfo>.
hashes_of(commit_infos) == [i \in 1..Len(commit_infos) |-> commit_infos[i].hash]

\* One issued query in the log: which query, the revision asked about (a
\* blame), whether it returned Ok, and the commits it returned (a history).
Query(name, revision, result) ==
    [query |-> name, revision |-> revision, ok |-> result.ok,
     returned |-> IF result.ok /\ name # "blame" THEN hashes_of(result.value) ELSE <<>>]

\* main has parsed the command line; no query has been issued and no viewer
\* is running.
CmdInit ==
    /\ ViewerIdle
    /\ pc = "not_called"
    /\ ProbeIdle
    /\ LibIdle
    /\ subcommand \in {"lines", "file", "none"}
    /\ reverse \in BOOLEAN
    /\ line_range \in (IF subcommand = "lines" THEN LineRanges ELSE {<<1, UsizeMax>>})
    /\ cmd_pc = "main"
    /\ commits = <<>>
    /\ file_versions = <<>>
    /\ queries = <<>>
    /\ stdout_log = <<>>
    /\ stderr_log = <<>>
    /\ exit_status = None

\* The process ends with the status: main returns (0), std::process::exit(1),
\* or a panic (101).
Exits(status) ==
    /\ cmd_pc' = "exited"
    /\ exit_status' = Some(status)
    /\ commits' = <<>>
    /\ file_versions' = <<>>

\* match matches.subcommand()
MainDispatch ==
    /\ cmd_pc = "main"
    /\ IF subcommand = "none"
       THEN /\ stdout_log' = Append(stdout_log, "Use 'garch --help' for usage information")
            /\ Exits(0)
       ELSE /\ cmd_pc' = subcommand
            /\ UNCHANGED <<stdout_log, exit_status, commits, file_versions>>
    /\ UNCHANGED <<viewer_vars, probe_vars, lib_vars, subcommand, reverse,
                   line_range, queries, stderr_log>>

\* handle_lines_command up to its call of get_file_versions.
HandleLinesCommand ==
    /\ cmd_pc = "lines"
    /\ \E output \in LineLogOutputs :
        LET history == get_line_history(output)
        IN /\ queries' = Append(queries, Query("line_history", <<>>, history))
           /\ IF ~history.ok
              THEN /\ stderr_log' = Append(stderr_log, "Error getting line history")
                   /\ Exits(1)
                   /\ UNCHANGED stdout_log
              ELSE IF history.value = <<>>
              THEN /\ stdout_log' = Append(stdout_log, "No history found")
                   /\ Exits(0)
                   /\ UNCHANGED stderr_log
              ELSE /\ cmd_pc' = "get_file_versions"
                   /\ UNCHANGED <<stdout_log, stderr_log, exit_status, commits,
                                  file_versions>>
    /\ UNCHANGED <<viewer_vars, probe_vars, lib_vars, subcommand, reverse, line_range>>

\* handle_file_command up to its call of get_file_versions.
HandleFileCommand ==
    /\ cmd_pc = "file"
    /\ stdout_log' = Append(stdout_log, "Loading file history")
    /\ cmd_pc' = "get_file_versions"
    /\ UNCHANGED <<viewer_vars, probe_vars, lib_vars, subcommand, reverse,
                   line_range, commits, file_versions, queries, stderr_log,
                   exit_status>>

\* get_file_versions up to its loop: get_file_history(file_path)?, and what
\* the handler does with the Err the `?` returns.
GetFileHistory ==
    /\ cmd_pc = "get_file_versions"
    /\ \E output \in FileLogOutputs :
        LET history == get_file_history(output)
        IN /\ queries' = Append(queries, Query("file_history", <<>>, history))
           /\ IF history.ok
              THEN /\ commits' = history.value
                   /\ file_versions' = <<>>
                   /\ cmd_pc' = "blame"
                   /\ UNCHANGED <<stderr_log, exit_status>>
              ELSE IF subcommand = "lines"
              THEN /\ stderr_log' = Append(stderr_log, "Error getting file versions")
                   /\ Exits(1)
              ELSE /\ stderr_log' = Append(stderr_log, "Error")
                   /\ Exits(0)
    /\ UNCHANGED <<viewer_vars, probe_vars, lib_vars, subcommand, reverse,
                   line_range, stdout_log>>

\* The versions vector with a failed blame kept as a version of no lines.
versions_after_blame_keeps_failed(versions_so_far, commit, blame) ==
    IF blame.ok
    THEN Append(versions_so_far, AssembledFileVersion(commit, blame.value))
    ELSE Append(versions_so_far, AssembledFileVersion(commit, <<>>))

\* The match of lines 365-375.
versions_after_blame(versions_so_far, commit, blame) ==
    IF blame.ok
    THEN Append(versions_so_far, AssembledFileVersion(commit, blame.value))
    ELSE versions_so_far

\* A pass of the loop that asks again, once, when the blame has failed.
BlameCommit_retries_once ==
    /\ cmd_pc = "blame"
    /\ commits # <<>>
    /\ \E output, second_output \in BlameOutputs :
        LET blame == get_blame_for_commit(output)
            second == get_blame_for_commit(second_output)
            asked == Append(queries, Query("blame", Head(commits).hash, blame))
        IN IF blame.ok
           THEN /\ queries' = asked
                /\ file_versions' = versions_after_blame(file_versions, Head(commits), blame)
           ELSE /\ queries' = Append(asked, Query("blame", Head(commits).hash, second))
                /\ file_versions' = versions_after_blame(file_versions, Head(commits), second)
    /\ commits' = Tail(commits)
    /\ UNCHANGED <<viewer_vars, probe_vars, lib_vars, subcommand, reverse,
                   line_range, cmd_pc, stdout_log, stderr_log, exit_status>>

\* One pass of the loop of get_file_versions.
BlameCommit ==
    /\ cmd_pc = "blame"
    /\ commits # <<>>
    /\ \E output \in BlameOutputs :
        LET blame == get_blame_for_commit(output)
        IN /\ queries' = Append(queries, Query("blame", Head(commits).hash, blame))
           /\ file_versions' = versions_after_blame(file_versions, Head(commits), blame)
    /\ commits' = Tail(commits)
    /\ UNCHANGED <<viewer_vars, probe_vars, lib_vars, subcommand, reverse,
                   line_range, cmd_pc, stdout_log, stderr_log, exit_status>>

\* Ok(versions): get_file_versions returns to the handler.
FileVersionsReturned ==
    /\ cmd_pc = "blame"
    /\ commits = <<>>
    /\ cmd_pc' = "assembled"
    /\ UNCHANGED <<viewer_vars, probe_vars, lib_vars, subcommand, reverse,
                   line_range, commits, file_versions, queries, stdout_log,
                   stderr_log, exit_status>>

RECURSIVE reversed(_)
\* Vec::reverse
reversed(q) == IF q = <<>> THEN <<>> ELSE Append(reversed(Tail(q)), Head(q))

\* The versions handed over with the flag read the other way round.
handed_versions_flag_inverted(versions_built, reverse_flag) ==
    IF reverse_flag THEN reversed(versions_built) ELSE versions_built

\* if !reverse { versions.reverse(); }
handed_versions(versions_built, reverse_flag) ==
    IF ~reverse_flag THEN reversed(versions_built) ELSE versions_built

\* The handler from the Ok of get_file_versions to its call of
\* run_interactive_viewer; only handle_file_command looks whether there is a
\* version.
StartViewer ==
    /\ cmd_pc = "assembled"
    /\ IF subcommand = "file" /\ file_versions = <<>>
       THEN /\ stdout_log' = Append(stdout_log, "No git history found")
            /\ Exits(0)
            /\ UNCHANGED viewer_vars
       ELSE /\ versions' = handed_versions(file_versions, reverse)
            /\ start_line' = line_range[1]
            /\ end_line' = line_range[2]
            /\ pc' = "enable_raw"
            /\ cmd_pc' = "viewer"
            /\ file_versions' = <<>>
            /\ UNCHANGED <<terminal_width, terminal_height, overflow_checks,
                           raw_mode, alt_screen, mouse_capture, entered,
                           current_version, scroll_offset, target_line,
                           content_height, display_end, last_event, commits,
                           stdout_log, exit_status>>
    /\ UNCHANGED <<probe_vars, lib_vars, subcommand, reverse, line_range,
                   queries, stderr_log>>

\* run_interactive_viewer returned Ok(()): the handler and main return.
ViewerReturnedOk ==
    /\ cmd_pc = "viewer"
    /\ pc = "returned_ok"
    /\ Exits(0)
    /\ UNCHANGED <<viewer_vars, probe_vars, lib_vars, subcommand, reverse,
                   line_range, queries, stdout_log, stderr_log>>

\* run_interactive_viewer returned an Err: handle_lines_command exits with
\* status 1, handle_file_command prints and returns.
ViewerReturnedErr ==
    /\ cmd_pc = "viewer"
    /\ pc = "returned_err"
    /\ stderr_log' = Append(stderr_log, "Error running interactive viewer")
    /\ Exits(IF subcommand = "lines" THEN 1 ELSE 0)
    /\ UNCHANGED <<viewer_vars, probe_vars, lib_vars, subcommand, reverse,
                   line_range, queries, stdout_log>>

\* run_interactive_viewer panicked: the process ends with the panic's status.
ViewerPanicked ==
    /\ cmd_pc = "viewer"
    /\ pc = "panicked"
    /\ stderr_log' = Append(stderr_log, "panicked")
    /\ Exits(101)
    /\ UNCHANGED <<viewer_vars, probe_vars, lib_vars, subcommand, reverse,
                   line_range, queries, stdout_log>>

CmdNext ==
    \/ MainDispatch
    \/ HandleLinesCommand
    \/ HandleFileCommand
    \/ GetFileHistory
    \/ BlameCommit
    \/ FileVersionsReturned
    \/ StartViewer
    \/ Next
    \/ ViewerReturnedOk
    \/ ViewerReturnedErr
    \/ ViewerPanicked

CmdSpec == CmdInit /\ [][CmdNext]_vars

\* ------------------------------------------------------------------ claims

\* The tracker has returned; its Option<usize>.
TrackerReturned == probe_result # <<>>

TrackerResult == probe_result[1]

\* |line_number - target_line| of probe row i.
ProbeDistance(i) ==
    IF probe_rows[i].line_number >= probe_target
    THEN probe_rows[i].line_number - probe_target
    ELSE probe_target - probe_rows[i].line_number

ProbeHasExact == \E i \in 1..Len(probe_rows) : probe_rows[i].line_number = probe_target

ProbeAscending ==
    \A i \in 1..Len(probe_rows) : \A j \in 1..Len(probe_rows) :
        i < j => probe_rows[i].line_number < probe_rows[j].line_number

\* C1: with a fixed terminal size, the scroll_offset a render drew the body
\* from satisfies 0 <= scroll_offset <= max(0, total_rows - content_height)
\* for the filtered rows of the version on display, also right after a
\* switch to a version whose filtered set is shorter or empty.
C1_ScrollOffsetClamped ==
    pc = "await" =>
        /\ scroll_offset >= 0
        /\ scroll_offset <= Max(0, Len(CurrentFiltered) - content_height)

\* C2: whenever run_interactive_viewer returns after it entered terminal
\* mode, by the quit key or by an error, raw mode is disabled and the
\* alternate screen is left.
C2_TerminalRestoredOnReturn ==
    (pc \in {"returned_ok", "returned_err"} /\ entered) =>
        (~raw_mode /\ ~alt_screen)

\* C3: for a non-empty row list the tracker returns the index of a row on
\* target_line if there is one; otherwise the index of a row at minimal
\* distance from target_line, the first such row in scan order (the one with
\* the lowest line number when the rows ascend).  For an empty list it
\* returns None.
C3_ClosestLine ==
    TrackerReturned =>
        IF Len(probe_rows) = 0 THEN TrackerResult = None
        ELSE /\ TrackerResult # None
             /\ TrackerResult[1] \in 0..(Len(probe_rows) - 1)
             /\ LET r == TrackerResult[1] + 1
                IN IF ProbeHasExact
                   THEN probe_rows[r].line_number = probe_target
                   ELSE /\ \A j \in 1..Len(probe_rows) : ProbeDistance(r) <= ProbeDistance(j)
                        /\ \A j \in 1..(r - 1) : ProbeDistance(j) > ProbeDistance(r)
                        /\ ProbeAscending =>
                              \A j \in 1..Len(probe_rows) :
                                  ProbeDistance(j) = ProbeDistance(r) =>
                                      probe_rows[r].line_number <= probe_rows[j].line_number

\* C3's case: no row on the target line and two rows tie for the minimal
\* distance; the earlier one was returned.
C3_Witness ==
    /\ TrackerReturned
    /\ Len(probe_rows) > 0
    /\ ~ProbeHasExact
    /\ TrackerResult # None
    /\ \E j \in 1..Len(probe_rows) :
          /\ j > TrackerResult[1] + 1
          /\ ProbeDistance(j) = ProbeDistance(TrackerResult[1] + 1)

DeletedLineProbe ==
    /\ probe_rows = RowsOf(<<5, 6, 8, 9>>)
    /\ probe_target = 7
    /\ TrackerReturned

\* C4 as stated: with rows [5,6,8,9] and target_line 7 the tracker resolves
\* to the row with line_number 8, a valid index.
C4_ResolvesToLine8 ==
    DeletedLineProbe =>
        /\ TrackerResult # None
        /\ TrackerResult[1] \in 0..3
        /\ probe_rows[TrackerResult[1] + 1].line_number = 8

\* C4 amended: with rows [5,6,8,9] and target_line 7 the tracker resolves to
\* index 1, the row with line_number 6: lines 6 and 8 are both at distance
\* 1 and the scan keeps the first.
C4_ResolvesToLine6 ==
    DeletedLineProbe =>
        /\ TrackerResult = Some(1)
        /\ probe_rows[TrackerResult[1] + 1].line_number = 6

C4_Witness == DeletedLineProbe /\ TrackerResult # None

\* The index the tracker resolves the pending anchor to.
MatchedIndex == find_closest_line_in_filtered(CurrentFiltered, target_line[1])[1]

Clamp(x, lo, hi) == Max(lo, Min(x, hi))

AnchorResolved ==
    /\ pc = "await"
    /\ target_line # None
    /\ Len(CurrentFiltered) > 0

ScrollCentredOnMatch ==
    scroll_offset =
        Clamp(MatchedIndex - (content_height \div 2), 0,
              Max(0, Len(CurrentFiltered) - content_height))

MatchVisible ==
    /\ scroll_offset <= MatchedIndex
    /\ MatchedIndex < scroll_offset + content_height

\* C5 as stated: at a render with an anchor pending and a non-empty filtered
\* set, scroll_offset is matched_index - floor(content_height/2) clamped
\* into [0, max(0, total_rows - content_height)], and the matched row lies
\* in the window [scroll_offset, scroll_offset + content_height).
C5_AnchorCentredAndVisible ==
    AnchorResolved => (ScrollCentredOnMatch /\ MatchVisible)

\* C5 amended: the same scroll_offset; the matched row lies in the window
\* whenever the window has at least one row (content_height >= 1).
C5_AnchorCentredVisibleIfRoom ==
    AnchorResolved =>
        /\ ScrollCentredOnMatch
        /\ content_height >= 1 => MatchVisible

\* C5's case: centring the matched row would run the window past the last
\* row, and the offset was clamped to the last full window.
C5_Witness ==
    /\ AnchorResolved
    /\ content_height >= 1
    /\ scroll_offset > 0
    /\ scroll_offset = Len(CurrentFiltered) - content_height
    /\ scroll_offset < MatchedIndex - (content_height \div 2)

\* An input event was read and handled, and the loop goes round.
HandledStep(ev) == pc = "await" /\ pc' = "render" /\ last_event' = ev

\* The anchor is armed with the line number of a row of the filtered set
\* that was on display before the switch (1 when that set is empty).
ArmedFromView ==
    /\ target_line' # None
    /\ IF Len(CurrentFiltered) = 0 THEN target_line' = Some(1)
       ELSE \E i \in 1..Len(CurrentFiltered) :
               target_line' = Some(CurrentFiltered[i].line_number)

SwitchNotTaken ==
    /\ current_version' = current_version
    /\ scroll_offset' = scroll_offset
    /\ target_line' = target_line

\* C6: for a non-empty version sequence of length N, current_version stays
\* in [0, N-1]; Right adds exactly 1 below N-1 and Left subtracts exactly 1
\* above 0, each arming an anchor captured from the view before the switch;
\* Left at 0 and Right at N-1 leave current_version, scroll_offset and the
\* anchor as they are.
C6_VersionSwitch ==
    [][ /\ Len(versions) > 0 => current_version' \in 0..(Len(versions) - 1)
        /\ HandledStep("Right") =>
              IF current_version < Len(versions) - 1
              THEN current_version' = current_version + 1 /\ ArmedFromView
              ELSE SwitchNotTaken
        /\ HandledStep("Left") =>
              IF current_version > 0
              THEN current_version' = current_version - 1 /\ ArmedFromView
              ELSE SwitchNotTaken
      ]_vars

\* C6's case: a Right from the first version moved to the second and armed
\* the anchor.
C6_Witness ==
    /\ pc = "render"
    /\ last_event = "Right"
    /\ current_version = 1
    /\ target_line # None

ManualScrollEvents ==
    {"Up", "Down", "PageUp", "PageDown", "Home", "End", "ScrollUp", "ScrollDown"}

\* C7: every manual scroll action clears the anchor, in whatever state it is
\* received (Up at offset 0 and Down at the maximum offset included), and a
\* cleared anchor stays cleared until a version switch is taken.
C7_ManualScrollClearsAnchor ==
    [][ /\ (\E ev \in ManualScrollEvents : HandledStep(ev)) => target_line' = None
        /\ (target_line = None /\ target_line' # None) =>
              current_version' # current_version
      ]_vars

\* The rows on display: [scroll_offset, min(scroll_offset + content_height,
\* total_rows)).
VisibleEnd == Min(scroll_offset + content_height, Len(CurrentFiltered))

VisibleCount == IF VisibleEnd > scroll_offset THEN VisibleEnd - scroll_offset ELSE 0

\* The indices of the middle row of the rows on display: one index for an
\* odd number of rows, either of the two central ones for an even number.
MiddleIndices ==
    {scroll_offset + ((VisibleCount - 1) \div 2), scroll_offset + (VisibleCount \div 2)}

SwitchTaken == pc = "await" /\ pc' = "render" /\ current_version' # current_version

\* C8, for a terminal of at least 4 rows: when a version switch is taken
\* with rows on display, the captured target_line is the line_number of the
\* first visible row if only one row is visible, and otherwise of the row at
\* the vertical middle of the visible rows, a row inside the window.
C8_TargetIsMiddleRow ==
    [][ (SwitchTaken /\ terminal_height >= 4 /\ VisibleCount >= 1) =>
            /\ target_line' # None
            /\ \E i \in (IF VisibleCount = 1 THEN {scroll_offset} ELSE MiddleIndices) :
                  /\ scroll_offset <= i
                  /\ i < VisibleEnd
                  /\ target_line' = Some(CurrentFiltered[i + 1].line_number)
      ]_vars

\* C9: End sets scroll_offset to exactly max(0, total_rows - content_height)
\* for the rows of the version on display, never negative and never past the
\* last reachable offset; Home sets it to 0.
C9_HomeEnd ==
    /\ (pc = "render" /\ last_event = "End") =>
          /\ scroll_offset = Max(0, Len(CurrentFiltered) - content_height)
          /\ scroll_offset >= 0
    /\ (pc = "render" /\ last_event = "Home") => scroll_offset = 0

\* C9's case: End moved the view down to the last full window.
C9_Witness ==
    /\ pc = "render"
    /\ last_event = "End"
    /\ scroll_offset > 0
    /\ scroll_offset + content_height = Len(CurrentFiltered)

\* Row i of a version lies in the requested window, clamped to the
\* version's largest line number.
InClampedWindow(blame_lines, i) ==
    /\ blame_lines[i].line_number >= start_line
    /\ blame_lines[i].line_number <= end_line
    /\ \E j \in 1..Len(blame_lines) :
          blame_lines[i].line_number <= blame_lines[j].line_number

\* rows is the subsequence of blame_lines, in order, of the rows in the
\* clamped window.
IsWindowSubsequence(rows, blame_lines) ==
    LET Q == {i \in 1..Len(blame_lines) : InClampedWindow(blame_lines, i)}
    IN /\ Len(rows) = Cardinality(Q)
       /\ \A i \in Q : rows[Cardinality({j \in Q : j <= i})] = blame_lines[i]

\* C10: the filtered rows a render draws from are exactly the version's
\* BlameLines, in order, whose line_number lies in
\* [start, min(end, largest line_number of the version)]; window [1,1000] on
\* a version with lines 1..42 gives 42 rows; no drawn index is past the end
\* of the filtered rows.
C10_FilteredWindow ==
    pc = "await" =>
        /\ IsWindowSubsequence(CurrentFiltered, versions[current_version + 1].blame_lines)
        /\ (versions = LongVersion /\ start_line = 1 /\ end_line = 1000) =>
              Len(CurrentFiltered) = 42
        /\ display_end <= Len(CurrentFiltered)
        /\ \A i \in scroll_offset..(display_end - 1) : i < Len(CurrentFiltered)

\* C10's case: window [1,1000] on the 42-line version, drawn down to its
\* last row.
C10_Witness ==
    /\ pc = "await"
    /\ versions = LongVersion
    /\ end_line = 1000
    /\ Len(CurrentFiltered) = 42
    /\ scroll_offset > 0
    /\ display_end = 42

\* The loop waits for input on a version none of whose rows lies in the
\* window.
EmptyFilteredView == pc = "await" /\ Len(CurrentFiltered) = 0

\* Body rows the pass drew: the i of scroll_offset..display_end.
BodyRowsDrawn == Max(0, display_end - scroll_offset)

\* The loop's locals hold values of their types and the next pass reaches
\* stdout.flush() unless the terminal fails.
NextPassRenders ==
    /\ pc' = "render"
    /\ scroll_offset' \in 0..UsizeMax
    /\ current_version' \in 0..(Len(versions') - 1)
    /\ \/ target_line' = None
       \/ Len(target_line') = 1 /\ target_line'[1] \in 0..UsizeMax
    /\ ~RenderWouldPanic'

\* C11: when the filtered set of the version on display is empty, the pass
\* draws no body row, and every input event other than quit is handled
\* without a failure and leaves the viewer in a state from which the next
\* pass renders again.
C11_EmptyFilteredGraceful ==
    [][EmptyFilteredView =>
          /\ BodyRowsDrawn = 0
          /\ (last_event' # "q" /\ pc' # "returned_err") => NextPassRenders]_vars

\* An empty view was scrolled with the mouse wheel and is about to be drawn
\* again.
C11_Witness ==
    /\ pc = "render"
    /\ last_event = "ScrollDown"
    /\ ~RenderWouldPanic
    /\ Len(CurrentFiltered) = 0
    /\ Len(versions) > 0

\* ----------------------------------------------------------- library claims

LibReturned(name) == lib_call = name /\ lib_ret # <<>>

\* What the call returned.
LibResult == lib_ret[1]

\* The separators of a line of history output.
SeparatorCount(line) == Cardinality({i \in 1..Len(line) : line[i] = "|"})

\* C12: parse_commit_line on a line of at least four '|'-separated fields
\* yields hash, date and author from the first three and the message from
\* all the remaining fields rejoined with '|' (the four parts put back
\* together with '|' are the line); a line of fewer than four fields yields
\* none.
C12_MessageRejoined ==
    LibReturned("parse_commit_line") =>
        IF SeparatorCount(lib_arg) >= 3
        THEN /\ LibResult # None
             /\ LET commit == LibResult[1]
                IN /\ ~contains(commit.hash, "|")
                   /\ ~contains(commit.date, "|")
                   /\ ~contains(commit.author, "|")
                   /\ lib_arg = commit.hash \o <<"|">> \o commit.date \o <<"|">>
                                \o commit.author \o <<"|">> \o commit.message
        ELSE LibResult = None

\* A line of blame output by its place in a record: the content line starts
\* with a tab; the header has at least three tokens, the first of at least 7
\* characters and the third a line number; every line between the two is
\* metadata.
IsContentLine(line) == line # <<>> /\ line[1] = "\t"

IsHeaderLine(line) ==
    /\ ~IsContentLine(line)
    /\ Len(split_whitespace(line)) >= 3
    /\ Len(split_whitespace(line)[1]) >= 7
    /\ parse_usize(split_whitespace(line)[3]) # None

IsMetadataLine(line) == ~IsContentLine(line)

\* The 1-based place of the content line that ends the complete record the
\* text starts with; 0 when the text does not start with a complete record.
FirstRecordEnd(text) ==
    LET ends == {j \in 2..Len(text) :
                    /\ IsContentLine(text[j])
                    /\ \A k \in 2..(j - 1) : IsMetadataLine(text[k])}
    IN IF text # <<>> /\ IsHeaderLine(text[1]) /\ ends # {}
       THEN CHOOSE j \in ends : TRUE
       ELSE 0

RECURSIVE CompleteRecords(_)
\* The complete records the text starts with, each as its lines.
CompleteRecords(text) ==
    IF FirstRecordEnd(text) = 0 THEN <<>>
    ELSE <<SubSeq(text, 1, FirstRecordEnd(text))>>
         \o CompleteRecords(SubSeq(text, FirstRecordEnd(text) + 1, Len(text)))

RECURSIVE AfterCompleteRecords(_)
\* What is left of the text after them.
AfterCompleteRecords(text) ==
    IF FirstRecordEnd(text) = 0 THEN text
    ELSE AfterCompleteRecords(SubSeq(text, FirstRecordEnd(text) + 1, Len(text)))

\* The value of the record's last metadata line with the prefix; empty when
\* it has none.
MetadataValue(record, prefix) ==
    LET hits == {k \in 2..(Len(record) - 1) : starts_with(record[k], prefix)}
        last == CHOOSE k \in hits : \A h \in hits : h <= k
    IN IF hits = {} THEN <<>>
       ELSE SubSeq(record[last], Len(prefix) + 1, Len(record[last]))

\* 'Jane Doe' is shown as 'Jane D.', a single word as it is.
Abbreviation(name) ==
    LET words == split_whitespace(name)
    IN IF Len(words) < 2 THEN name
       ELSE words[1] \o <<" ", Head(words[2]), ".">>

\* The BlameLine is the one the record describes.
DescribesRecord(blame_line, record) ==
    LET header == split_whitespace(record[1])
    IN /\ parse_usize(header[3]) = Some(blame_line.line_number)
       /\ blame_line.commit_hash = SubSeq(header[1], 1, 7)
       /\ blame_line.author = Abbreviation(MetadataValue(record, AuthorPrefix))
       /\ blame_line.commit_message = MetadataValue(record, SummaryPrefix)
       /\ blame_line.content = Tail(record[Len(record)])

\* One BlameLine per complete record, in input order.
YieldsRecords(blame_lines, records) ==
    /\ Len(blame_lines) = Len(records)
    /\ \A k \in 1..Len(records) : DescribesRecord(blame_lines[k], records[k])

\* The text ends in a header that only metadata lines follow.
EndsInTruncatedRecord(text) ==
    LET rest == AfterCompleteRecords(text)
    IN /\ rest # <<>>
       /\ IsHeaderLine(rest[1])
       /\ \A k \in 2..Len(rest) : IsMetadataLine(rest[k])

\* C15: a header that no content line follows before the input ends
\* produces no BlameLine, and the BlameLines of the complete records before
\* it are what they are without it.
C15_TruncatedRecordDropped ==
    (LibReturned("parse_blame_output_with_highlighting") /\ EndsInTruncatedRecord(lib_arg))
        => YieldsRecords(LibResult, CompleteRecords(lib_arg))

\* C16: a blame dump of k complete records yields exactly k BlameLines in
\* input order, each with the header's third token as line_number, the first
\* 7 characters of the header's first token as commit_hash, the abbreviated
\* 'author' value as author, the 'summary' value as commit_message and the
\* content line without its tab as content; the block of spec.md section 8
\* yields line 5 by 'Jane D.' of commit 'abcdef1' with content 'hello'.
C16_CompleteRecords ==
    LibReturned("parse_blame_output_with_highlighting") =>
        /\ AfterCompleteRecords(lib_arg) = <<>>
              => YieldsRecords(LibResult, CompleteRecords(lib_arg))
        /\ lib_arg = BlameBlock =>
              /\ Len(LibResult) = 1
              /\ LibResult[1].line_number = 5
              /\ LibResult[1].author = <<"J", "a", "n", "e", " ", "D", ".">>
              /\ LibResult[1].commit_hash = <<"a", "b", "c", "d", "e", "f", "1">>
              /\ LibResult[1].commit_message = <<"i", "n", "i", "t">>
              /\ LibResult[1].content = <<"h", "e", "l", "l", "o">>

\* Two complete records were parsed, the second by an author of one name.
C16_Witness ==
    /\ LibReturned("parse_blame_output_with_highlighting")
    /\ AfterCompleteRecords(lib_arg) = <<>>
    /\ Len(CompleteRecords(lib_arg)) = 2
    /\ Len(LibResult) = 2
    /\ LibResult[1].author = <<"J", "a", "n", "e", " ", "D", ".">>
    /\ LibResult[2].author = <<"C", "h", "e", "r">>

\* The new-file start of a hunk header: the number written after its first
\* '+'.
NewFileStart(header) ==
    LET plus == CHOOSE i \in 1..Len(header) :
                    header[i] = "+" /\ \A j \in 1..(i - 1) : header[j] # "+"
        last == CHOOSE e \in plus..Len(header) :
                    /\ \A j \in (plus + 1)..e : is_digit(header[j])
                    /\ e = Len(header) \/ ~is_digit(header[e + 1])
    IN decimal_value(SubSeq(header, plus + 1, last), 0)

IsHunkHeader(line) == Len(line) >= 2 /\ line[1] = "@" /\ line[2] = "@"

StartsWithThree(line, c) ==
    Len(line) >= 3 /\ line[1] = c /\ line[2] = c /\ line[3] = c

RECURSIVE ChangesFrom(_, _, _, _)
\* The LineChanges of the k-th line on: nothing before the first hunk header,
\* the counter set by every header, advanced by an addition and by a context
\* line and not by a removal.
ChangesFrom(lines, k, in_hunk, counter) ==
    IF k > Len(lines) THEN <<>>
    ELSE IF IsHunkHeader(lines[k])
    THEN ChangesFrom(lines, k + 1, TRUE, NewFileStart(lines[k]))
    ELSE IF ~in_hunk \/ lines[k] = <<>>
    THEN ChangesFrom(lines, k + 1, in_hunk, counter)
    ELSE IF Head(lines[k]) = "+" /\ ~StartsWithThree(lines[k], "+")
    THEN <<LineChange(counter, "Added", Tail(lines[k]))>>
         \o ChangesFrom(lines, k + 1, in_hunk, counter + 1)
    ELSE IF Head(lines[k]) = "-" /\ ~StartsWithThree(lines[k], "-")
    THEN <<LineChange(counter, "Removed", Tail(lines[k]))>>
         \o ChangesFrom(lines, k + 1, in_hunk, counter)
    ELSE IF Head(lines[k]) = " "
    THEN ChangesFrom(lines, k + 1, in_hunk, counter + 1)
    ELSE ChangesFrom(lines, k + 1, in_hunk, counter)

\* No commit or diff boundary follows the first hunk header: spec.md section
\* 4.9 has the extraction end at such a line.
NoBoundaryInHunks(lines) ==
    \A k \in 1..Len(lines) :
        (starts_with(lines[k], CommitPrefix) \/ starts_with(lines[k], DiffGitPrefix))
            => \A j \in 1..(k - 1) : ~IsHunkHeader(lines[j])

ChangesOfType(changes, type) == SelectSeq(changes, LAMBDA c : c.change_type = type)

\* C17: parse_diff_output ignores every line before the first '@@' hunk
\* header, sets the counter to the header's new-file start, and for each
\* following line emits Added at the counter and increments it on '+' (not
\* '+++'), emits Removed at the counter without incrementing on '-' (not
\* '---'), and increments on ' '; the one-hunk diff '@@ -1,3 +1,4 @@' with 2
\* additions and 1 deletion yields exactly 2 Added and 1 Removed.
C17_DiffCounter ==
    LibReturned("parse_diff_output") =>
        /\ NoBoundaryInHunks(lib_arg) => LibResult = ChangesFrom(lib_arg, 1, FALSE, 0)
        /\ lib_arg = OneHunkDiff =>
              /\ Len(ChangesOfType(LibResult, "Added")) = 2
              /\ Len(ChangesOfType(LibResult, "Removed")) = 1
              /\ Len(LibResult) = 3

ExternalQueries ==
    {"get_line_history", "get_file_history", "get_blame_for_commit", "get_commit_changes"}

\* One of the four queries has returned.
QueryReturned == lib_call \in ExternalQueries /\ lib_ret # <<>>

\* C20: each of the four external queries returns an error whenever the
\* external command exits with a nonzero status; a nonzero exit is never
\* turned into a successful result.
C20_NonzeroExitIsError ==
    (QueryReturned /\ lib_arg.spawned /\ ~lib_arg.success) => ~LibResult.ok

\* ----------------------------------------------------------- process claims

QueriesOf(name) == SelectSeq(queries, LAMBDA q : q.query = name)

SuccessfulBlames == SelectSeq(queries, LAMBDA q : q.query = "blame" /\ q.ok)

RevisionsOf(blames) == [i \in 1..Len(blames) |-> blames[i].revision]

\* A commit's place in the file's history, by its hash: the oldest is 1.
AgeOfHash(hash) == digit_value(hash[Len(hash)])

\* The hashes name commits from newest to oldest.
NewestFirst(hashes) ==
    \A i, j \in 1..Len(hashes) : i < j => AgeOfHash(hashes[i]) > AgeOfHash(hashes[j])

OldestFirst(hashes) ==
    \A i, j \in 1..Len(hashes) : i < j => AgeOfHash(hashes[i]) < AgeOfHash(hashes[j])

\* get_file_versions has returned Ok(file_versions): one blame query was made
\* for each commit of the file history, and file_versions holds one
\* FileVersion for each commit whose blame succeeded, none for the others, in
\* the order of the history, newest first.
AssembledFromSuccessfulBlames ==
    /\ Len(QueriesOf("file_history")) = 1
    /\ QueriesOf("file_history")[1].ok
    /\ RevisionsOf(QueriesOf("blame")) = QueriesOf("file_history")[1].returned
    /\ [i \in 1..Len(file_versions) |-> file_versions[i].commit_hash]
           = RevisionsOf(SuccessfulBlames)
    /\ NewestFirst([i \in 1..Len(file_versions) |-> file_versions[i].commit_hash])

\* C13: when the file-history query succeeds, get_file_versions returns Ok
\* with exactly one FileVersion for each commit whose blame query succeeded
\* and none for a commit whose blame query failed, in the order the commit
\* query returned them (newest first); no blame failure makes the assembly
\* fail: from its loop the function goes nowhere but to its Ok.
C13_AssemblyDropsFailedBlames ==
    [][/\ cmd_pc = "blame" => (cmd_pc' \in {"blame", "assembled"} /\ exit_status' = None)
       /\ cmd_pc' = "assembled" => AssembledFromSuccessfulBlames']_vars

\* Three commits were blamed; the blame of the second failed and two
\* versions were assembled.
C13_Witness ==
    /\ cmd_pc = "assembled"
    /\ Len(QueriesOf("blame")) = 3
    /\ ~QueriesOf("blame")[2].ok
    /\ Len(file_versions) = 2

VersionHashes == [i \in 1..Len(versions) |-> versions[i].commit_hash]

\* The viewer is at or before its first render.
BeforeFirstEvent ==
    \/ pc \in {"enable_raw", "enter_alt"}
    \/ pc = "render" /\ last_event = "none"

\* C14: for both subcommands the version sequence handed to the viewer has
\* the oldest commit at index 0 without --reverse and the newest commit at
\* index 0 with it; the viewer starts at index 0, and the sequence stays as
\* it is for the whole session.
C14_DisplayOrder ==
    [][cmd_pc' = "viewer" =>
          /\ IF reverse' THEN NewestFirst(VersionHashes') ELSE OldestFirst(VersionHashes')
          /\ BeforeFirstEvent' => current_version' = 0
          /\ cmd_pc = "viewer" => versions' = versions]_vars

\* The lines subcommand without --reverse shows the oldest of three versions
\* first; the file subcommand with --reverse the newest.
C14_Witness ==
    /\ cmd_pc = "viewer"
    /\ pc = "await"
    /\ last_event = "none"
    /\ Len(versions) = 3
    /\ \/ subcommand = "lines" /\ ~reverse /\ AgeOfHash(versions[1].commit_hash) = 1
       \/ subcommand = "file" /\ reverse /\ AgeOfHash(versions[1].commit_hash) = 3

\* run_interactive_viewer has been called.
ViewerStarted == pc # "not_called"

\* C18: in both subcommands, when the initial history query fails or its
\* output is not text, the program prints the error on stderr, does not
\* start the viewer, and ends with a nonzero exit status.
C18_QueryFailureExitsNonzero ==
    (cmd_pc = "exited" /\ queries # <<>> /\ ~queries[1].ok) =>
        /\ stderr_log # <<>>
        /\ ~ViewerStarted
        /\ exit_status # None
        /\ exit_status # Some(0)

\* The history is empty: the first history query returned no commit, or the
\* assembly ended with no version.
EmptyHistory ==
    \/ queries # <<>> /\ queries[1].ok /\ queries[1].returned = <<>>
    \/ /\ QueriesOf("file_history") # <<>>
       /\ QueriesOf("file_history")[1].ok
       /\ Len(QueriesOf("blame")) = Len(QueriesOf("file_history")[1].returned)
       /\ SuccessfulBlames = <<>>

\* C19: in both subcommands, when the history is empty the program prints
\* an informational message and exits successfully without entering the
\* viewer; the viewer is never started with an empty version sequence.
C19_EmptyHistoryNoViewer ==
    /\ ViewerStarted => versions # <<>>
    /\ (cmd_pc = "exited" /\ EmptyHistory) =>
          /\ ~ViewerStarted
          /\ exit_status = Some(0)
          /\ \E i \in 1..Len(stdout_log) :
                stdout_log[i] \in {"No history found", "No git history found"}

\* ------------------------------------------------------------- loop claims

\* The input events a handled step records, the quit key apart.
LoopingEvents ==
    {"Left", "Right", "Up", "Down", "PageUp", "PageDown", "Home", "End",
     "ScrollUp", "ScrollDown", "Other"}

\* The loop has been left for good: by break, by a `?` or by a panic.
LoopLeft == pc \in {"disable_raw", "leave_alt", "returned_ok", "returned_err", "panicked"}

\* C21: the viewer loop alternates strictly between one render and one
\* blocking read of exactly one input event.  A render is followed by the
\* read (or by the function's end on an I/O error or panic), never by another
\* render; a read is followed by the next render, with exactly one event
\* handled, or by the loop's end.  A press of 'q' can be read in every
\* awaiting state and ends the loop, after which there is no render and no
\* read; a step that handles any other event goes on to the next render.
C21_LoopAlternation ==
    [][/\ pc = "render" => pc' \in {"await", "returned_err", "panicked"}
       /\ pc = "await" =>
            /\ ENABLED KeyQuit
            /\ \/ pc' = "render" /\ last_event' \in LoopingEvents
               \/ pc' = "disable_raw" /\ last_event' = "q"
               \/ pc' = "returned_err" /\ last_event' = "none"
       /\ LoopLeft => LoopLeft'
      ]_vars

\* The quit key was pressed in the loop and the function has run on to its
\* end.
C21_Witness ==
    /\ pc = "returned_ok"
    /\ last_event = "q"
    /\ entered

\* --------------------------------------------------------- assembly claims

\* Position in the log of the one file-history query (0: not issued yet).
FileHistoryAt ==
    IF \E i \in 1..Len(queries) : queries[i].query = "file_history"
    THEN CHOOSE i \in 1..Len(queries) : queries[i].query = "file_history"
    ELSE 0

\* q is the sequence p or starts with it.
IsPrefix(p, q) == Len(p) <= Len(q) /\ p = SubSeq(q, 1, Len(p))

\* The log of issued queries is that of one assembly: at most one
\* file-history query, no blame query before it or after its failure, and
\* the blame queries ask about the commits it returned, one each, in the
\* order it returned them.
OneQueryPerCommit ==
    /\ Len(QueriesOf("file_history")) <= 1
    /\ \A i \in 1..Len(queries) :
          queries[i].query = "blame" => (FileHistoryAt # 0 /\ FileHistoryAt < i)
    /\ FileHistoryAt = 0 => QueriesOf("blame") = <<>>
    /\ FileHistoryAt # 0 =>
          /\ ~queries[FileHistoryAt].ok => QueriesOf("blame") = <<>>
          /\ IsPrefix(RevisionsOf(QueriesOf("blame")), queries[FileHistoryAt].returned)

\* get_file_versions is past its file-history query.
AssemblyUnderWay == cmd_pc \in {"blame", "assembled", "viewer"}

\* C22: during version assembly the file-history query is issued exactly
\* once, then exactly one blame query per parsed commit, in commit order and
\* one at a time (a step issues at most one query, and a query has returned
\* when the step is over); a query that failed, the file-history query or a
\* blame, is not issued a second time.  When get_file_versions returns Ok
\* every parsed commit has been asked about.
C22_OneQueryPerCommit ==
    [][/\ OneQueryPerCommit'
       /\ \/ queries' = queries
          \/ \E q \in {queries'[Len(queries')]} : queries' = Append(queries, q)
       /\ AssemblyUnderWay' =>
            /\ Len(QueriesOf("file_history")') = 1
            /\ QueriesOf("file_history")'[1].ok
       /\ cmd_pc' = "assembled" =>
            RevisionsOf(QueriesOf("blame"))' = queries'[FileHistoryAt'].returned
      ]_vars

\* garch lines: three commits were parsed and asked about in turn; the
\* blames of the first and of the last failed and were not asked again.
C22_Witness ==
    /\ cmd_pc = "assembled"
    /\ subcommand = "lines"
    /\ Len(QueriesOf("blame")) = 3
    /\ ~QueriesOf("blame")[1].ok
    /\ QueriesOf("blame")[2].ok
    /\ ~QueriesOf("blame")[3].ok

\* -------------------------------------------------------- terminal claims

\* Raw mode and the alternate screen are entered only by the two statements
\* before the loop, which run once, and both are on at every render.
RawAndAlternateEnteredOnce ==
    /\ (raw_mode' /\ ~raw_mode) => (pc = "enable_raw" /\ ~entered)
    /\ (alt_screen' /\ ~alt_screen) => (pc = "enter_alt" /\ ~entered)
    /\ pc' \in {"enable_raw", "enter_alt"} => pc \in {"not_called", "enable_raw"}
    /\ pc' = "render" => (raw_mode' /\ alt_screen')

\* C23: before the first render run_interactive_viewer has entered all three
\* parts of terminal mode exactly once (raw input, alternate screen and
\* mouse capture), and it enters none of them again during the session.
C23_TerminalModeEntered ==
    [][/\ RawAndAlternateEnteredOnce
       /\ pc' = "render" => mouse_capture'
       /\ (mouse_capture' /\ ~mouse_capture) => ~entered
      ]_vars

\* The two parts of terminal mode the function does enter, on their own.
TerminalModeWithoutMouseCapture == [][RawAndAlternateEnteredOnce]_vars

\* ------------------------------------------------------------ drift claims

\* The rows a version shows through the session's window.
FilteredOf(version_index) ==
    filtered_lines(versions[version_index + 1].blame_lines, start_line, end_line)

\* The view lies strictly between the top and the last full window of more
\* rows than fit.
MidView ==
    /\ Len(CurrentFiltered) > content_height
    /\ scroll_offset > 0
    /\ scroll_offset < Len(CurrentFiltered) - content_height

\* The scroll_offset the render after a switch arrives at, when the switch
\* is made from the given offset and both versions show the given rows: the
\* anchor the switch arms, resolved by the tracker and centred.
offset_after_switch(rows, offset, height) ==
    LET target == get_current_target_line(rows, offset, height)
        closest_pos == find_closest_line_in_filtered(rows, target)
    IN IF closest_pos = None THEN offset
       ELSE anchored_scroll_offset(closest_pos[1], height, Len(rows))

\* A switch between two versions with the same filtered rows, made from the
\* middle of the rows.
SwitchAcrossSameRows ==
    /\ SwitchTaken
    /\ FilteredOf(current_version') = CurrentFiltered
    /\ MidView

\* C24: reading position does not drift across version switches.  For two
\* adjacent versions with identical filtered rows, more rows than
\* content_height and scroll_offset at neither end, the render after a
\* single switch draws from the scroll_offset the view had before it, and so
\* does the render after a switch there and back.
C24_NoDrift ==
    [][SwitchAcrossSameRows =>
          /\ render_scroll_offset(CurrentFiltered, render_content_height)' = scroll_offset
          /\ offset_after_switch(CurrentFiltered,
                                 offset_after_switch(CurrentFiltered, scroll_offset,
                                                     content_height),
                                 content_height) = scroll_offset
      ]_vars

\* C24's case on a view of one row: the captured row is the top row, and the
\* switch leaves scroll_offset where it was.
DriftFreeOnOneRowView ==
    [][(SwitchAcrossSameRows /\ content_height <= 1) =>
          render_scroll_offset(CurrentFiltered, render_content_height)' = scroll_offset
      ]_vars

\* C24's case on a view of two rows or more: the switch moves the view up by
\* exactly one row.
DriftsByOneRow ==
    [][(SwitchAcrossSameRows /\ content_height >= 2) =>
          render_scroll_offset(CurrentFiltered, render_content_height)' = scroll_offset - 1
      ]_vars

\* ------------------------------------------------------- arithmetic claims

\* A render pass that no I/O error ends, in a session that has a version to
\* show.
RenderPassTaken == pc = "render" /\ pc' # "returned_err" /\ Len(versions) > 0

\* The pass reaches the read with both reserved-space subtractions exact.
SubtractionsExact ==
    /\ pc' = "await"
    /\ content_height' = terminal_height - 4
    /\ content_height' >= 0
    /\ render_content_width = terminal_width - 20
    /\ render_content_width >= 0

\* C25: for every terminal size the terminal can report, heights below 4
\* rows and widths below 20 columns included, each render cycle computes
\* content_height = terminal_height - 4 and content_width =
\* terminal_width - 20 as non-negative values, without arithmetic underflow,
\* and the cycle does not abort.
C25_NoUnderflow == [][RenderPassTaken => SubtractionsExact]_vars

\* C25 on a terminal of at least 4 rows and 20 columns.
ExactOnAmpleTerminal ==
    [][(RenderPassTaken /\ terminal_height >= 4 /\ terminal_width >= 20)
           => SubtractionsExact]_vars

\* Below 4 rows or 20 columns the pass panics when the build checks
\* overflow, and goes on with a wrapped value when it does not.
AbortsOrWrapsOnSmallTerminal ==
    [][(RenderPassTaken /\ (terminal_height < 4 \/ terminal_width < 20)) =>
          IF overflow_checks THEN pc' = "panicked"
          ELSE /\ pc' = "await"
               /\ terminal_height < 4 => content_height' = UsizeModulus + terminal_height - 4
               /\ terminal_width < 20 => render_content_width = UsizeModulus + terminal_width - 20
      ]_vars

\* ------------------------------------------------------------- body claims

\* C26: in every render the body region, the drawn line rows together with
\* the author block header lines emitted whenever the author differs from
\* the previous row, occupies at most content_height terminal lines.
C26_BodyWithinHeight ==
    pc = "await" => body_lines_printed <= content_height

\* The line rows alone stay within content_height.
RowsWithinHeight ==
    pc = "await" => saturating_sub(display_end, scroll_offset) <= content_height

\* A pass that draws a full window of rows prints more lines than
\* content_height: the first row always opens an author block.
FullWindowOverruns ==
    (/\ pc = "await"
     /\ content_height >= 1
     /\ saturating_sub(display_end, scroll_offset) = content_height)
        => body_lines_printed > content_height

\* With alternating authors every row brings a header: twice the rows.
AlternatingAuthorsDoubleTheBody ==
    (pc = "await" /\ versions = AlternatingAuthorVersions)
        => body_lines_printed = 2 * saturating_sub(display_end, scroll_offset)

====
